---- MODULE Spec2Model ----
(***************************************************************************)
(* CPU configuration engine of the Steam Deck (advanced) profile:          *)
(* backend/src/settings/steam_deck_adv/cpu.rs.                             *)
(*                                                                         *)
(* The ensemble (Cpus) owns the cores (Cpu); an external caller mutates    *)
(* the desired fields through the setters and then calls on_set or         *)
(* on_resume on the ensemble.  Each call is one action; the control-file   *)
(* reads and writes it performs are recorded, in order, in `trace`.        *)
(* The outcome of the I/O is an input of the call: `failAt` is the ordinal *)
(* of the control-file operation of the call that fails (0: none).  Every  *)
(* fallible operation in the code is followed by `?` or `.unwrap()`, so    *)
(* control leaves the call at the first failure and the outcome of later   *)
(* operations is never observed.                                           *)
(*                                                                         *)
(* The specifications share the operators of the code:                     *)
(*   Spec       the ensemble of NumCores cores as system_default builds    *)
(*              it, its setters, on_set and on_resume;                     *)
(*   SpecRange  the ensemble as from_json loads it, one core carrying      *)
(*              persisted clock limits over Freqs x Freqs;                 *)
(*   SpecDeck   the 8 cores of the Steam Deck;                             *)
(*   SpecLoad   the constructors cpu_count, system_default and from_json;  *)
(*   SpecLimits the ensemble as from_json loads it with limits inside the  *)
(*              envelope, clock_limits(..), on_set and on_resume;          *)
(*   SpecHw     the same with the clock-control file recorded and the      *)
(*              suspensions of the system;                                 *)
(*   SpecOnline the ensemble on hardware with offline sibling cores, the   *)
(*              online files recorded.                                     *)
(*                                                                         *)
(* crate::state::steam_deck::Cpu is used by cpu.rs through default() and   *)
(* its three flags only; State takes clock_limits_set and is_resuming      *)
(* false and do_set_online true at construction.                           *)
(***************************************************************************)
EXTENDS Integers, Sequences, FiniteSets, TLC

\* ---- bounds of the model ----
NumCores == 2          \* cores of the ensemble: the primary core and its sibling
MaxSetterCalls == 1    \* setter calls in one behaviour
MaxTextLen == 3        \* characters of the text of the present-range file
MaxPersisted == 3      \* records of a persisted sequence

\* clock values around the envelope constants 500, 1400 and 3500
Freqs == {100, 600, 2000, 9000}
Governors == {"schedutil", "performance"}

VARIABLES
    cpus,          \* Cpus.cpus : core index -> Cpu
    smt,           \* Cpus.smt
    smt_capable,   \* Cpus.smt_capable
    force_level,   \* content of power_dpm_force_performance_level
    trace,         \* control-file operations of the most recent call, in order
    ret,           \* what the most recent call returned
    setter_calls,  \* number of setter calls made so far
    hw,            \* the online files and the clock-control file of the hardware
    last_p         \* core index -> the "p" values the core wrote last, per slot

vars == <<cpus, smt, smt_capable, force_level, trace, ret, setter_calls, hw, last_p>>

CoreIds == 0 .. (NumCores - 1)

\* ---- paths ----
NoIndex == -1
CPU_SMT_PATH == [file |-> "smt/control", index |-> NoIndex]
CPU_CLOCK_LIMITS_PATH == [file |-> "pp_od_clk_voltage", index |-> NoIndex]
CPU_FORCE_LIMITS_PATH == [file |-> "power_dpm_force_performance_level", index |-> NoIndex]
cpu_online_path(index) == [file |-> "online", index |-> index]
cpu_governor_path(index) == [file |-> "scaling_governor", index |-> index]

\* ---- data ----
\* Option<MinMax<u64>>
None == [some |-> FALSE, min |-> 0, max |-> 0]
Some(mn, mx) == [some |-> TRUE, min |-> mn, max |-> mx]

\* the clock limits a caller requests through the setter
ReqLimits == {Some(100, 9000)}

\* crate::state::steam_deck::Cpu::default(), the three flags cpu.rs uses
State == [clock_limits_set |-> FALSE, is_resuming |-> FALSE, do_set_online |-> TRUE]

\* SettingsRange for Cpu: only clock_limits is read from the two envelopes
Cpu_max == [clock_limits |-> Some(3500, 3500)]
Cpu_min == [clock_limits |-> Some(1400, 500)]

\* Ord::clamp
clamp(v, lo, hi) == IF v < lo THEN lo ELSE IF v > hi THEN hi ELSE v

\* `self.online as u8`
as_u8(b) == IF b THEN 1 ELSE 0

\* ---- control-file primitive (usdpl_back::api::files) ----
\* One control-file operation as the trace records it.  `level` is the content
\* of the performance-mode file when the operation is issued.
Entry(op, who, path, val, ok, level) ==
    [op |-> op, cpu |-> who, path |-> path, val |-> val, ok |-> ok, level |-> level]

\* The operation fails iff it is the failAt-th of the call.  A write that
\* succeeds on the performance-mode file changes its content.
write_single(io, level, who, path, val, failAt) ==
    LET ok == (Len(io) + 1 # failAt)
    IN  [ok |-> ok,
         io |-> Append(io, Entry("write", who, path, val, ok, level)),
         level |-> IF ok /\ path = CPU_FORCE_LIMITS_PATH THEN val[1] ELSE level]

read_single(io, level, who, path, failAt) ==
    LET ok == (Len(io) + 1 # failAt)
    IN  [ok |-> ok,
         io |-> Append(io, Entry("read", who, path, <<level>>, ok, level)),
         val |-> level]

\* ---- Cpu ----
\* A per-core call in progress: r = [cpu, level, io, res, setting]; res is "Ok"
\* while no operation has failed.

\* try_write without the `?`: the error is dropped and the call goes on
try_write_unchecked(r, path, val, failAt) ==
    IF r.res # "Ok" THEN r
    ELSE LET w == write_single(r.io, r.level, r.cpu.index, path, val, failAt)
         IN  [r EXCEPT !.io = w.io, !.level = w.level]

\* `write_single(path, val).map_err(|e| SettingError {.., setting: Cpu})?`
try_write(r, path, val, failAt) ==
    IF r.res # "Ok" THEN r
    ELSE LET w == write_single(r.io, r.level, r.cpu.index, path, val, failAt)
         IN  [r EXCEPT !.io = w.io, !.level = w.level,
                       !.res = IF w.ok THEN "Ok" ELSE "Err",
                       !.setting = IF w.ok THEN "" ELSE "Cpu"]

\* format!("p {} {} {}\n", self.index / 2, slot, value), as its tokens
payload(index, slot, value) == <<"p", index \div 2, slot, value>>

\* set cpu online/offline
set_online(r, failAt) ==
    IF r.res # "Ok" THEN r
    ELSE IF r.cpu.index # 0 /\ r.cpu.state.do_set_online
         THEN try_write(r, cpu_online_path(r.cpu.index), <<as_u8(r.cpu.online)>>, failAt)
         ELSE r

\* set_manual with the test of the mode inverted
set_manual_inverted(r, failAt) ==
    IF r.res # "Ok" THEN r
    ELSE LET rd == read_single(r.io, r.level, r.cpu.index, CPU_FORCE_LIMITS_PATH, failAt)
             r1 == [r EXCEPT !.io = rd.io]
         IN  IF ~rd.ok THEN [r1 EXCEPT !.res = "Panic"]
             ELSE IF rd.val = "manual"
                  THEN try_write(r1, CPU_FORCE_LIMITS_PATH, <<"manual">>, failAt)
                  ELSE r1

\* read the performance mode (unwrap: a failed read panics), set manual control
set_manual(r, failAt) ==
    IF r.res # "Ok" THEN r
    ELSE LET rd == read_single(r.io, r.level, r.cpu.index, CPU_FORCE_LIMITS_PATH, failAt)
             r1 == [r EXCEPT !.io = rd.io]
         IN  IF ~rd.ok THEN [r1 EXCEPT !.res = "Panic"]
             ELSE IF rd.val # "manual"
                  THEN try_write(r1, CPU_FORCE_LIMITS_PATH, <<"manual">>, failAt)
                  ELSE r1

\* set_clock_limits that leaves out the lines of limits it has already applied
set_clock_limits_if_new(r, failAt) ==
    IF r.res # "Ok" THEN r
    ELSE LET self == r.cpu IN
         IF self.clock_limits.some
         THEN IF self.state.clock_limits_set THEN r
              ELSE LET r1 == [r EXCEPT !.cpu.state.clock_limits_set = TRUE]
                       r2 == try_write(r1, CPU_CLOCK_LIMITS_PATH,
                                       payload(self.index, 1, self.clock_limits.max), failAt)
                   IN  try_write(r2, CPU_CLOCK_LIMITS_PATH,
                                 payload(self.index, 0, self.clock_limits.min), failAt)
         ELSE IF self.state.clock_limits_set \/ self.state.is_resuming
         THEN LET r1 == [r EXCEPT !.cpu.state.clock_limits_set = FALSE]
                  r2 == try_write(r1, CPU_CLOCK_LIMITS_PATH,
                                  payload(self.index, 1, Cpu_max.clock_limits.max), failAt)
              IN  try_write(r2, CPU_CLOCK_LIMITS_PATH,
                            payload(self.index, 0, Cpu_min.clock_limits.min), failAt)
         ELSE r

\* set_clock_limits that does not clear clock_limits_set with the defaults
set_clock_limits_keep_flag(r, failAt) ==
    IF r.res # "Ok" THEN r
    ELSE LET self == r.cpu IN
         IF self.clock_limits.some
         THEN LET r1 == [r EXCEPT !.cpu.state.clock_limits_set = TRUE]
                  r2 == try_write(r1, CPU_CLOCK_LIMITS_PATH,
                                  payload(self.index, 1, self.clock_limits.max), failAt)
              IN  try_write(r2, CPU_CLOCK_LIMITS_PATH,
                            payload(self.index, 0, self.clock_limits.min), failAt)
         ELSE IF self.state.clock_limits_set \/ self.state.is_resuming
         THEN LET r2 == try_write(r, CPU_CLOCK_LIMITS_PATH,
                                  payload(self.index, 1, Cpu_max.clock_limits.max), failAt)
              IN  try_write(r2, CPU_CLOCK_LIMITS_PATH,
                            payload(self.index, 0, Cpu_min.clock_limits.min), failAt)
         ELSE r

\* set clock limits
set_clock_limits(r, failAt) ==
    IF r.res # "Ok" THEN r
    ELSE LET self == r.cpu IN
         IF self.clock_limits.some
         THEN LET r1 == [r EXCEPT !.cpu.state.clock_limits_set = TRUE]
                  r2 == try_write(r1, CPU_CLOCK_LIMITS_PATH,
                                  payload(self.index, 1, self.clock_limits.max), failAt)
              IN  try_write(r2, CPU_CLOCK_LIMITS_PATH,
                            payload(self.index, 0, self.clock_limits.min), failAt)
         ELSE IF self.state.clock_limits_set \/ self.state.is_resuming
         THEN LET r1 == [r EXCEPT !.cpu.state.clock_limits_set = FALSE]
                  r2 == try_write(r1, CPU_CLOCK_LIMITS_PATH,
                                  payload(self.index, 1, Cpu_max.clock_limits.max), failAt)
              IN  try_write(r2, CPU_CLOCK_LIMITS_PATH,
                            payload(self.index, 0, Cpu_min.clock_limits.min), failAt)
         ELSE r

\* commit only when the apply has just written clock lines
commit_if_pending(r, failAt) ==
    IF Len(r.io) > 0 /\ r.io[Len(r.io)].path = CPU_CLOCK_LIMITS_PATH
    THEN try_write(r, CPU_CLOCK_LIMITS_PATH, <<"c">>, failAt)
    ELSE r

\* commit changes
commit(r, failAt) == try_write(r, CPU_CLOCK_LIMITS_PATH, <<"c">>, failAt)

\* set governor
set_governor(r, failAt) ==
    IF r.res # "Ok" THEN r
    ELSE IF r.cpu.index = 0 \/ r.cpu.online
         THEN try_write(r, cpu_governor_path(r.cpu.index), <<r.cpu.governor>>, failAt)
         ELSE r

set_all(self, level, io, failAt) ==
    LET r0 == [cpu |-> self, level |-> level, io |-> io, res |-> "Ok", setting |-> ""]
    IN  set_governor(commit(set_clock_limits(set_manual(set_online(r0, failAt),
            failAt), failAt), failAt), failAt)

\* clamp_all with the min bound clamped against the range of the max bound
clamp_all_same_range(self) ==
    IF self.clock_limits.some
    THEN LET max_boost == Cpu_max.clock_limits
             min_boost == Cpu_min.clock_limits
         IN  [self EXCEPT
                !.clock_limits.min = clamp(self.clock_limits.min, min_boost.max, max_boost.max),
                !.clock_limits.max = clamp(self.clock_limits.max, min_boost.max, max_boost.max)]
    ELSE self

clamp_all(self) ==
    IF self.clock_limits.some
    THEN LET max_boost == Cpu_max.clock_limits
             min_boost == Cpu_min.clock_limits
         IN  [self EXCEPT
                !.clock_limits.min = clamp(self.clock_limits.min, min_boost.min, max_boost.min),
                !.clock_limits.max = clamp(self.clock_limits.max, min_boost.max, max_boost.max)]
    ELSE self

\* impl OnSet for Cpu
Cpu_on_set(self, level, io, failAt) == set_all(clamp_all(self), level, io, failAt)

\* impl OnResume for Cpu: set_all runs on a clone, self is left as it was
Cpu_on_resume(self, level, io, failAt) ==
    LET copy == [self EXCEPT !.state.is_resuming = TRUE]
        r == set_all(copy, level, io, failAt)
    IN  [r EXCEPT !.cpu = self]

\* ---- Cpus ----
\* An ensemble call in progress: R = [cpus, level, io, res, setting, cores];
\* cores is the sequence of the results the per-core calls made so far returned.

\* do_set_online with the parity of the sibling cores
do_set_online_odd(smtv, i) == smtv \/ i % 2 = 1

do_set_online(smtv, i) == smtv \/ i % 2 = 0

\* toggle_smt without the test of smt_capable
toggle_smt_always(R, capable, smtv, failAt) ==
    LET w == write_single(R.io, R.level, NoIndex, CPU_SMT_PATH,
                          <<IF smtv THEN "on" ELSE "off">>, failAt)
    IN  [R EXCEPT !.io = w.io, !.level = w.level,
                  !.res = IF w.ok THEN "Ok" ELSE "Err",
                  !.setting = IF w.ok THEN "" ELSE "Cpu"]

\* toggle SMT
toggle_smt(R, capable, smtv, failAt) ==
    IF capable
    THEN LET w == write_single(R.io, R.level, NoIndex, CPU_SMT_PATH,
                               <<IF smtv THEN "on" ELSE "off">>, failAt)
         IN  [R EXCEPT !.io = w.io, !.level = w.level,
                       !.res = IF w.ok THEN "Ok" ELSE "Err",
                       !.setting = IF w.ok THEN "" ELSE "Cpu"]
    ELSE R

RECURSIVE on_set_loop(_, _, _, _)
on_set_loop(R, i, smtv, failAt) ==
    IF i \notin DOMAIN R.cpus \/ R.res # "Ok" THEN R
    ELSE LET cpu == [R.cpus[i] EXCEPT !.state.do_set_online = do_set_online(smtv, i)]
             r == Cpu_on_set(cpu, R.level, R.io, failAt)
         IN  on_set_loop([cpus |-> [R.cpus EXCEPT ![i] = r.cpu], level |-> r.level,
                          io |-> r.io, res |-> r.res, setting |-> r.setting,
                          cores |-> Append(R.cores, [res |-> r.res, setting |-> r.setting])],
                         i + 1, smtv, failAt)

Cpus_on_set(self_cpus, capable, smtv, level, failAt) ==
    LET R0 == [cpus |-> self_cpus, level |-> level, io |-> <<>>, res |-> "Ok",
               setting |-> "", cores |-> <<>>]
    IN  on_set_loop(toggle_smt(R0, capable, smtv, failAt), 0, smtv, failAt)

RECURSIVE on_resume_loop(_, _, _)
on_resume_loop(R, i, failAt) ==
    IF i \notin DOMAIN R.cpus \/ R.res # "Ok" THEN R
    ELSE LET r == Cpu_on_resume(R.cpus[i], R.level, R.io, failAt)
         IN  on_resume_loop([cpus |-> [R.cpus EXCEPT ![i] = r.cpu], level |-> r.level,
                             io |-> r.io, res |-> r.res, setting |-> r.setting,
                             cores |-> Append(R.cores, [res |-> r.res, setting |-> r.setting])],
                            i + 1, failAt)

Cpus_on_resume(self_cpus, level, failAt) ==
    on_resume_loop([cpus |-> self_cpus, level |-> level, io |-> <<>>, res |-> "Ok",
                    setting |-> "", cores |-> <<>>], 0, failAt)

\* ---- construction ----
\* The text of a control file is a sequence of characters.
Chars == {"0", "1", "7", "-", "x"}
Digits == {"0", "1", "7"}
DigitVal(c) == IF c = "0" THEN 0 ELSE IF c = "1" THEN 1 ELSE 7
Texts == UNION {[1 .. n -> Chars] : n \in 0 .. MaxTextLen}

\* the outcome of reading a control file: Err, or Ok(text)
Unreadable == [ok |-> FALSE, text |-> <<>>]
Readable(text) == [ok |-> TRUE, text |-> text]

\* Option<usize>
NoCount == [some |-> FALSE, val |-> 0]
SomeCount(n) == [some |-> TRUE, val |-> n]

\* str::find('-'): the position of the first dash counted from 1, 0 for None
find_dash(data) ==
    LET S == {i \in DOMAIN data : data[i] = "-"}
    IN  IF S = {} THEN 0 ELSE CHOOSE i \in S : \A j \in S : i <= j

\* String::split_off(at): the text from byte `at` on (`at` counted from 0)
split_off(data, at) == SubSeq(data, at + 1, Len(data))

RECURSIVE digits_value(_, _)
digits_value(s, acc) ==
    IF s = <<>> THEN acc ELSE digits_value(Tail(s), acc * 10 + DigitVal(Head(s)))

\* str::parse::<usize>(): an optional "+", then one or more digits and nothing
\* else
parse_usize(s) ==
    LET digits == IF s # <<>> /\ Head(s) = "+" THEN Tail(s) ELSE s
    IN  IF digits = <<>> \/ \E i \in DOMAIN digits : digits[i] \notin Digits
        THEN [ok |-> FALSE, val |-> 0]
        ELSE [ok |-> TRUE, val |-> digits_value(digits, 0)]

\* Cpu::from_sys: the online flag as read from the online file of the core, no
\* clock override, default transient state
from_sys(i, online) ==
    [online |-> online, clock_limits |-> None, governor |-> "schedutil",
     index |-> i, state |-> State]

\* CpuJson: a persisted record
CpuJson(online, limits, governor) ==
    [online |-> online, clock_limits |-> limits, governor |-> governor]

\* Cpu::from_json (versions decode alike): the persisted fields, default
\* transient state
Cpu_from_json(other, i) ==
    [online |-> other.online, clock_limits |-> other.clock_limits,
     governor |-> other.governor, index |-> i, state |-> State]

\* Cpu::from_json of a record that persists the given clock limits for an
\* online core
from_json(i, limits) == Cpu_from_json(CpuJson(TRUE, limits, "schedutil"), i)

\* Cpus::cpu_count; present is the outcome of reading CPU_PRESENT_PATH
cpu_count(present) ==
    LET data == IF present.ok THEN present.text ELSE <<"0", "-", "7">>
        dash_index == find_dash(data)
    IN  IF dash_index # 0 /\ parse_usize(split_off(data, dash_index)).ok
        THEN SomeCount(parse_usize(split_off(data, dash_index)).val + 1)
        ELSE NoCount

\* Cpus::system_smt_capabilities; smtctl is the outcome of reading
\* CPU_SMT_PATH, whose text the kernel gives in lower case
system_smt_capabilities(smtctl) ==
    IF smtctl.ok THEN [status |-> smtctl.text = <<"on">>, can |-> TRUE]
    ELSE [status |-> FALSE, can |-> FALSE]

\* a Vec<Cpu> as the function from position (counted from 0) to element
vec(sq) == [i \in 0 .. (Len(sq) - 1) |-> sq[i + 1]]

\* Cpus::system_default as the sequence of its cores; offline is the set of the
\* cores whose online file holds 0
system_default(present, smtctl, offline) ==
    LET max_cpu == cpu_count(present)
        caps == system_smt_capabilities(smtctl)
    IN  IF max_cpu.some
        THEN [cpus |-> [i \in 1 .. max_cpu.val |-> from_sys(i - 1, (i - 1) \notin offline)],
              smt |-> caps.status, smt_capable |-> caps.can]
        ELSE [cpus |-> <<>>, smt |-> FALSE, smt_capable |-> FALSE]

\* Vec::remove(i), i counted from 0: panics when i is not a position of the Vec
vec_remove(sq, i) ==
    [ok |-> i < Len(sq),
     elem |-> IF i < Len(sq) THEN sq[i + 1] ELSE from_sys(0, TRUE),
     rest |-> IF i < Len(sq) THEN SubSeq(sq, 1, i) \o SubSeq(sq, i + 2, Len(sq)) ELSE sq]

\* `for (i, cpu) in other.drain(..).enumerate()`: stops at i == max_cpus
RECURSIVE drain_loop(_, _, _, _)
drain_loop(result, other, i, max_cpus) ==
    IF i >= Len(other) \/ (max_cpus.some /\ i = max_cpus.val) THEN result
    ELSE drain_loop(Append(result, Cpu_from_json(other[i + 1], i)), other, i + 1, max_cpus)

\* `for i in result.len()..sys_cpus.cpus.len()`: the range is fixed when the
\* loop starts, sys_cpus shrinks with every remove
RECURSIVE backfill_loop(_, _, _, _)
backfill_loop(result, sys_cpus, i, hi) ==
    IF i >= hi THEN [res |-> "Ok", cpus |-> result]
    ELSE LET rm == vec_remove(sys_cpus, i)
         IN  IF ~rm.ok THEN [res |-> "Panic", cpus |-> result]
             ELSE backfill_loop(Append(result, rm.elem), rm.rest, i + 1, hi)

\* Cpus::from_json
Cpus_from_json(other, present, smtctl, offline) ==
    LET can_smt == system_smt_capabilities(smtctl).can
        max_cpus == cpu_count(present)
        result == drain_loop(<<>>, other, 0, max_cpus)
        filled == IF max_cpus.some /\ Len(result) # max_cpus.val
                  THEN LET sys_cpus == system_default(present, smtctl, offline)
                       IN  backfill_loop(result, sys_cpus.cpus, Len(result), Len(sys_cpus.cpus))
                  ELSE [res |-> "Ok", cpus |-> result]
    IN  [res |-> filled.res, cpus |-> filled.cpus, smt |-> TRUE, smt_capable |-> can_smt]

\* ---- the control files ----
\* hw.offline: the cores whose online file holds 0; hw.pending: pair -> the
\* bounds the "p" lines have set; hw.committed: pair -> the bounds in effect,
\* those of hw.pending at the last "c\n"; hw.at_suspend: hw.committed as it was
\* when the system last suspended.
MinMax(mn, mx) == [min |-> mn, max |-> mx]

\* the bounds the hardware runs with when no override is active, which set_all
\* writes back as the defaults
FactoryClocks == MinMax(Cpu_min.clock_limits.min, Cpu_max.clock_limits.max)
FactoryTable(cs) == [p \in {i \div 2 : i \in DOMAIN cs} |-> FactoryClocks]

Hardware(cs, offline) ==
    [offline |-> offline, pending |-> FactoryTable(cs), committed |-> FactoryTable(cs),
     at_suspend |-> FactoryTable(cs)]

IsOkWrite(e) == e.op = "write" /\ e.ok
\* the cores to whose online file a call wrote v
online_set(io, v) ==
    {io[k].path.index :
        k \in {j \in DOMAIN io : IsOkWrite(io[j]) /\ io[j].path.file = "online"
                                   /\ io[j].val = <<v>>}}
IsOkP(e) == IsOkWrite(e) /\ e.path = CPU_CLOCK_LIMITS_PATH /\ e.val[1] = "p"
IsOkCommit(e) == IsOkWrite(e) /\ e.path = CPU_CLOCK_LIMITS_PATH /\ e.val[1] = "c"

Last(K) == CHOOSE k \in K : \A j \in K : j <= k

\* the value of the last of the operations K of io, old if there is none
last_value(io, K, old) == IF K = {} THEN old ELSE io[Last(K)].val[4]

\* hw.pending after the first n operations of a call: every successful "p"
\* line sets the slot it names of the pair it names
pending_after(pending, io, n) ==
    [p \in DOMAIN pending |->
        MinMax(last_value(io, {k \in 1 .. n : IsOkP(io[k]) /\ io[k].val[2] = p
                                               /\ io[k].val[3] = 0}, pending[p].min),
               last_value(io, {k \in 1 .. n : IsOkP(io[k]) /\ io[k].val[2] = p
                                               /\ io[k].val[3] = 1}, pending[p].max))]

\* the files after the operations io of a call: a successful write of 0 or 1
\* to an online file sets it (a call writes it at most once), a successful
\* "c\n" puts the pending bounds in effect
files_after(h, io) ==
    LET commits == {k \in DOMAIN io : IsOkCommit(io[k])}
    IN  [h EXCEPT
         !.offline = (h.offline \cup online_set(io, 0)) \ online_set(io, 1),
         !.pending = pending_after(h.pending, io, Len(io)),
         !.committed = IF commits = {} THEN h.committed
                       ELSE pending_after(h.pending, io, Last(commits))]

\* no "p" line written yet
NoLines == MinMax(0, 0)

\* last_p after the operations io of a call
lines_after(l, io) ==
    [i \in DOMAIN l |->
        MinMax(last_value(io, {k \in DOMAIN io : IsOkP(io[k]) /\ io[k].cpu = i
                                                  /\ io[k].val[3] = 0}, l[i].min),
               last_value(io, {k \in DOMAIN io : IsOkP(io[k]) /\ io[k].cpu = i
                                                  /\ io[k].val[3] = 1}, l[i].max))]

\* ---- the state machine ----

\* The outcomes of the control-file operations of a call whose failure-free
\* run performs the operations io: none fails, or the k-th does.
FailPoints(io) == 0 .. Len(io)

\* arg: the persisted sequence given to from_json; val: the count cpu_count gave
NoCall ==
    [call |-> "none", arg |-> <<>>, res |-> "Ok", setting |-> "", cores |-> <<>>,
     val |-> NoCount]
Returned(call, R) ==
    [NoCall EXCEPT !.call = call, !.res = R.res, !.setting = R.setting, !.cores = R.cores]

\* a panic ends the process
Alive == ret.res # "Panic"

\* The performance-mode file starts in automatic mode; it holds "manual" from
\* the first apply that gets past the mode switch.
Init ==
    /\ cpus = [i \in CoreIds |-> from_sys(i, TRUE)]
    /\ smt \in BOOLEAN
    /\ smt_capable \in BOOLEAN
    /\ force_level = "auto"
    /\ trace = <<>>
    /\ ret = NoCall
    /\ setter_calls = 0
    /\ hw = Hardware(cpus, {i \in DOMAIN cpus : ~cpus[i].online})
    /\ last_p = [i \in DOMAIN cpus |-> NoLines]

Setter(new_cpus, new_smt) ==
    /\ Alive
    /\ setter_calls < MaxSetterCalls
    /\ setter_calls' = setter_calls + 1
    /\ cpus' = new_cpus
    /\ smt' = new_smt
    /\ trace' = <<>>
    /\ ret' = NoCall
    /\ UNCHANGED <<smt_capable, force_level>>

\* TCpu::online (a mutable handle to the flag)
SetOnline == \E i \in CoreIds, b \in BOOLEAN :
    Setter([cpus EXCEPT ![i].online = b], smt)

\* TCpu::governor
SetGovernor == \E i \in CoreIds, g \in Governors :
    Setter([cpus EXCEPT ![i].governor = g], smt)

\* TCpu::clock_limits
SetClockLimits == \E i \in CoreIds :
    \/ Setter([cpus EXCEPT ![i].clock_limits = None], smt)
    \/ \E l \in ReqLimits :
          Setter([cpus EXCEPT ![i].clock_limits = l], smt)

\* Cpus.smt is a public field
SetSmt == \E b \in BOOLEAN : Setter(cpus, b)

\* (R is bound by \E over a singleton so that the call is evaluated once)
OnSet == \E failAt \in FailPoints(Cpus_on_set(cpus, smt_capable, smt, force_level, 0).io) :
    /\ Alive
    /\ \E R \in {Cpus_on_set(cpus, smt_capable, smt, force_level, failAt)} :
           /\ cpus' = R.cpus
           /\ force_level' = R.level
           /\ trace' = R.io
           /\ ret' = Returned("on_set", R)
    /\ UNCHANGED <<smt, smt_capable, setter_calls>>

OnResume == \E failAt \in FailPoints(Cpus_on_resume(cpus, force_level, 0).io) :
    /\ Alive
    /\ \E R \in {Cpus_on_resume(cpus, force_level, failAt)} :
           /\ cpus' = R.cpus
           /\ force_level' = R.level
           /\ trace' = R.io
           /\ ret' = Returned("on_resume", R)
    /\ UNCHANGED <<smt, smt_capable, setter_calls>>

\* hw and last_p are history variables: no handler reads them.  A
\* specification that states nothing about them leaves them as they are at
\* construction; one that does records the control-file operations of every
\* call in them.
Unrecorded == UNCHANGED <<hw, last_p>>
Recorded ==
    /\ hw' = files_after(hw, trace')
    /\ last_p' = lines_after(last_p, trace')

Next ==
    \/ SetOnline /\ Unrecorded
    \/ SetGovernor /\ Unrecorded
    \/ SetClockLimits /\ Unrecorded
    \/ SetSmt /\ Unrecorded
    \/ OnSet /\ Unrecorded
    \/ OnResume /\ Unrecorded

Spec == Init /\ [][Next]_vars

\* The clamp of requested limits: the ensemble as Cpus::from_json loads it, one
\* core carrying persisted limits drawn from Freqs, then applies and resumes.
InitRange ==
    /\ \E c \in CoreIds, mn \in Freqs, mx \in Freqs :
          cpus = [i \in CoreIds |-> from_json(i, IF i = c THEN Some(mn, mx) ELSE None)]
    /\ smt = TRUE
    /\ smt_capable \in BOOLEAN
    /\ force_level = "auto"
    /\ trace = <<>>
    /\ ret = NoCall
    /\ setter_calls = 0
    /\ hw = Hardware(cpus, {i \in DOMAIN cpus : ~cpus[i].online})
    /\ last_p = [i \in DOMAIN cpus |-> NoLines]

NextRange ==
    \/ OnSet /\ Unrecorded
    \/ OnResume /\ Unrecorded

SpecRange == InitRange /\ [][NextRange]_vars

\* The ensemble of the Steam Deck as Cpus::system_default builds it: the cores
\* 0 .. 7 of the present range "0-7", all online or one of the cores 0 and 3
\* offline.
DefaultMaxCpu == 7
DeckCores == 0 .. DefaultMaxCpu

InitDeck ==
    /\ \E off \in {NoIndex, 0, 3} :
          cpus = [i \in DeckCores |-> from_sys(i, i # off)]
    /\ smt \in BOOLEAN
    /\ smt_capable \in BOOLEAN
    /\ force_level = "auto"
    /\ trace = <<>>
    /\ ret = NoCall
    /\ setter_calls = 0
    /\ hw = Hardware(cpus, {i \in DOMAIN cpus : ~cpus[i].online})
    /\ last_p = [i \in DOMAIN cpus |-> NoLines]

NextDeck ==
    \/ OnSet /\ Unrecorded
    \/ OnResume /\ Unrecorded

SpecDeck == InitDeck /\ [][NextDeck]_vars

\* Construction: no ensemble yet, then one of cpu_count, system_default and
\* from_json on the present-range texts of at most MaxTextLen characters and the
\* persisted sequences of at most MaxPersisted records.
CPU_PRESENT_PATH == [file |-> "present", index |-> NoIndex]
PresentReads == {Unreadable} \cup {Readable(t) : t \in Texts}
SmtReads == {Unreadable, Readable(<<"on">>), Readable(<<"off">>)}
PersistedRecords == {CpuJson(FALSE, Some(2000, 3000), "performance")}
Persisted == UNION {[1 .. n -> PersistedRecords] : n \in 0 .. MaxPersisted}

InitLoad ==
    /\ cpus = <<>>
    /\ smt = FALSE
    /\ smt_capable = FALSE
    /\ force_level = "auto"
    /\ trace = <<>>
    /\ ret = NoCall
    /\ setter_calls = 0
    /\ \E offline \in {{}, {1}} : hw = Hardware(cpus, offline)
    /\ last_p = <<>>

\* the reads of the present-range file and of the SMT file, as the trace
\* records them
read_present(present) ==
    Entry("read", NoIndex, CPU_PRESENT_PATH, present.text, present.ok, force_level)
read_smt(smtctl) ==
    Entry("read", NoIndex, CPU_SMT_PATH, smtctl.text, smtctl.ok, force_level)

CpuCount == ret = NoCall /\ \E present \in PresentReads :
    /\ trace' = <<read_present(present)>>
    /\ ret' = [NoCall EXCEPT !.call = "cpu_count", !.val = cpu_count(present)]
    /\ UNCHANGED <<cpus, smt, smt_capable, force_level, setter_calls, hw, last_p>>

\* a constructor returns the ensemble: the clock tables and the history start
\* anew for its cores
Constructed(call, arg, new, present, smtctl) ==
    /\ trace' = <<read_present(present), read_smt(smtctl)>>
    /\ ret' = [NoCall EXCEPT !.call = call, !.arg = arg, !.res = new.res,
                             !.val = cpu_count(present)]
    /\ IF new.res = "Ok"
       THEN /\ cpus' = vec(new.cpus)
            /\ smt' = new.smt
            /\ smt_capable' = new.smt_capable
       ELSE UNCHANGED <<cpus, smt, smt_capable>>
    /\ hw' = Hardware(cpus', hw.offline)
    /\ last_p' = [i \in DOMAIN cpus' |-> NoLines]
    /\ UNCHANGED <<force_level, setter_calls>>

SystemDefault == ret = NoCall /\ \E present \in PresentReads, smtctl \in SmtReads :
    \E d \in {system_default(present, smtctl, hw.offline)} :
        Constructed("system_default", <<>>, d @@ [res |-> "Ok"], present, smtctl)

FromJson ==
    ret = NoCall /\ \E other \in Persisted, present \in PresentReads, smtctl \in SmtReads :
        \E j \in {Cpus_from_json(other, present, smtctl, hw.offline)} :
            Constructed("from_json", other, j, present, smtctl)

NextLoad ==
    \/ CpuCount
    \/ SystemDefault
    \/ FromJson

SpecLoad == InitLoad /\ [][NextLoad]_vars

\* The ensemble and the clock-control file: the ensemble as Cpus::from_json
\* loads it (smt true) on hardware that is not SMT-capable, each core with or
\* without persisted clock limits inside the envelope; then clock_limits(..),
\* applies, resumes and suspensions, the control files recorded.
PersistedLimits == {None, Some(2000, 3000)}

InitHw ==
    /\ \E limits \in [CoreIds -> PersistedLimits] :
          cpus = [i \in CoreIds |-> from_json(i, limits[i])]
    /\ hw = Hardware(cpus, {})
    /\ smt = TRUE
    /\ smt_capable = FALSE
    /\ force_level = "auto"
    /\ trace = <<>>
    /\ ret = NoCall
    /\ setter_calls = 0
    /\ last_p = [i \in DOMAIN cpus |-> NoLines]

\* the same ensemble, its applies and resumes taken alone
NextLimits ==
    \/ SetClockLimits /\ Unrecorded
    \/ OnSet /\ Unrecorded
    \/ OnResume /\ Unrecorded

SpecLimits == InitHw /\ [][NextLimits]_vars

\* The system suspends after an apply that succeeded and wakes up: the
\* hardware has lost the clock overrides, and the performance mode is as it
\* was or back at automatic.
Suspend ==
    /\ ret.call = "on_set" /\ ret.res = "Ok"
    /\ hw' = [hw EXCEPT !.pending = FactoryTable(cpus),
                        !.committed = FactoryTable(cpus),
                        !.at_suspend = hw.committed]
    /\ force_level' \in {force_level, "auto"}
    /\ trace' = <<>>
    /\ ret' = [NoCall EXCEPT !.call = "suspend"]
    /\ UNCHANGED <<cpus, smt, smt_capable, setter_calls, last_p>>

NextHw ==
    \/ SetClockLimits /\ Recorded
    \/ OnSet /\ Recorded
    \/ OnResume /\ Recorded
    \/ Suspend

SpecHw == InitHw /\ [][NextHw]_vars

\* The ensemble and the online files: the ensemble as Cpus::from_json loads it,
\* every core persisted online, on hardware whose sibling cores may be
\* offline; then the setters of smt and online, applies and resumes, the
\* control files recorded.
InitOnline ==
    /\ cpus = [i \in CoreIds |-> from_json(i, None)]
    /\ \E offline \in SUBSET (CoreIds \ {0}) : hw = Hardware(cpus, offline)
    /\ smt = TRUE
    /\ smt_capable \in BOOLEAN
    /\ force_level = "auto"
    /\ trace = <<>>
    /\ ret = NoCall
    /\ setter_calls = 0
    /\ last_p = [i \in DOMAIN cpus |-> NoLines]

NextOnline ==
    \/ SetOnline /\ Recorded
    \/ SetSmt /\ Recorded
    \/ OnSet /\ Recorded
    \/ OnResume /\ Recorded

SpecOnline == InitOnline /\ [][NextOnline]_vars

\* ---- reading the trace ----
Ops == DOMAIN trace
Cores == DOMAIN cpus
IsWrite(e) == e.op = "write"
IsClock(e) == IsWrite(e) /\ e.path = CPU_CLOCK_LIMITS_PATH
IsP(e) == IsClock(e) /\ e.val[1] = "p"
IsCommit(e) == IsClock(e) /\ e.val[1] = "c"
IsModeRead(e) == e.op = "read" /\ e.path = CPU_FORCE_LIMITS_PATH
IsManualWrite(e) == IsWrite(e) /\ e.path = CPU_FORCE_LIMITS_PATH /\ e.val[1] = "manual"
IsOnlineWrite(e) == IsWrite(e) /\ e.path.file = "online"
IsGovernorWrite(e) == IsWrite(e) /\ e.path.file = "scaling_governor"

\* the per-core call of core i was made in the most recent ensemble call
Ran(i) == i + 1 \in DOMAIN ret.cores
\* what it returned
CoreRet(i) == ret.cores[i + 1]
\* the most recent call was an apply
Applied == ret.call \in {"on_set", "on_resume"}

\* ---- claims ----

\* C1: in every per-core apply, each "p" line written to the clock-control file
\* comes after a read of the performance-mode file by the same per-core apply
\* that either returned "manual" or was directly followed by a successful write
\* of "manual"; the performance-mode file holds "manual" when the line is written.
C1_ManualBeforeClockLines ==
    \A k \in Ops : IsP(trace[k]) =>
        /\ trace[k].level = "manual"
        /\ \E j \in 1 .. (k - 1) :
              /\ trace[j].cpu = trace[k].cpu
              /\ IsModeRead(trace[j]) /\ trace[j].ok
              /\ \/ trace[j].val[1] = "manual"
                 \/ /\ j + 1 < k
                    /\ trace[j + 1].cpu = trace[k].cpu
                    /\ IsManualWrite(trace[j + 1]) /\ trace[j + 1].ok

\* a "p" line written by an apply that found the mode file not in manual mode
\* and switched it
C1_Witness ==
    \E k \in Ops : \E j \in 1 .. (k - 1) :
        /\ IsP(trace[k]) /\ trace[k].ok
        /\ trace[j].cpu = trace[k].cpu
        /\ IsModeRead(trace[j]) /\ trace[j].val[1] = "auto"
        /\ IsManualWrite(trace[j + 1]) /\ trace[j + 1].ok

\* C2: in every per-core apply that returns success, "c" is written to the
\* clock-control file exactly once, after every "p" line of that apply and
\* before its governor write, also when the apply wrote no "p" line.
C2_CommitOnce ==
    Applied =>
        \A i \in Cores : (Ran(i) /\ CoreRet(i).res = "Ok") =>
            \E c \in Ops :
                /\ trace[c].cpu = i /\ IsCommit(trace[c]) /\ trace[c].ok
                /\ \A k \in Ops : (trace[k].cpu = i /\ IsCommit(trace[k])) => k = c
                /\ \A k \in Ops : (trace[k].cpu = i /\ IsP(trace[k])) => k < c
                /\ \A k \in Ops : (trace[k].cpu = i /\ IsGovernorWrite(trace[k])) => c < k

\* a successful per-core on_set that wrote no "p" line, and its commit and
\* governor write
C2_Witness ==
    /\ ret.call = "on_set"
    /\ \E i \in Cores :
        /\ Ran(i) /\ CoreRet(i).res = "Ok"
        /\ \A k \in Ops : trace[k].cpu = i => ~IsP(trace[k])
        /\ \E c, g \in Ops :
              /\ trace[c].cpu = i /\ IsCommit(trace[c])
              /\ trace[g].cpu = i /\ IsGovernorWrite(trace[g])

\* C3: Cpu::on_set turns requested clock limits {min: a, max: b} into
\* {min: a bound to [1400, 3500], max: b bound to [500, 3500]}, {100, 9000} into
\* {1400, 3500}, and the "p" lines it writes carry the bound values.
C3_Expected(l) ==
    Some(IF l.min < 1400 THEN 1400 ELSE IF l.min > 3500 THEN 3500 ELSE l.min,
         IF l.max < 500 THEN 500 ELSE IF l.max > 3500 THEN 3500 ELSE l.max)

C3_ClampOnSet ==
    [][ret'.call = "on_set" =>
        \A i \in Cores : (i + 1 \in DOMAIN ret'.cores /\ cpus[i].clock_limits.some) =>
            /\ cpus'[i].clock_limits = C3_Expected(cpus[i].clock_limits)
            /\ cpus[i].clock_limits = Some(100, 9000) => cpus'[i].clock_limits = Some(1400, 3500)
            /\ \A k \in DOMAIN trace' : (trace'[k].cpu = i /\ IsP(trace'[k])) =>
                  trace'[k].val = <<"p", i \div 2, trace'[k].val[3],
                                    IF trace'[k].val[3] = 1
                                    THEN C3_Expected(cpus[i].clock_limits).max
                                    ELSE C3_Expected(cpus[i].clock_limits).min>>
    ]_vars

\* a successful on_set of a core whose limits are {1400, 3500} and both lines
C3_Witness ==
    /\ ret.call = "on_set" /\ ret.res = "Ok"
    /\ \E i \in Cores :
        /\ cpus[i].clock_limits = Some(1400, 3500)
        /\ \E k \in Ops :
              /\ trace[k].cpu = i /\ trace[k].val = <<"p", i \div 2, 1, 3500>>
              /\ trace[k + 1].cpu = i /\ trace[k + 1].val = <<"p", i \div 2, 0, 1400>>

\* C4: after the clamp step of Cpu::on_set the clock limits of the core have
\* min <= max, whatever pair was requested.
C4_MinLeMaxAfterClamp ==
    ret.call = "on_set" =>
        \A i \in Cores : (Ran(i) /\ cpus[i].clock_limits.some) =>
            cpus[i].clock_limits.min <= cpus[i].clock_limits.max

\* C5: the first control-file write of a per-core apply that fails ends that
\* apply: the core performs no later operation, the apply returns a
\* SettingError tagged Cpu, and a switch to manual mode made earlier by the
\* same apply stays in place.
C5_FirstFailureEnds ==
    \A k \in Ops : (IsWrite(trace[k]) /\ ~trace[k].ok /\ trace[k].cpu # NoIndex) =>
        LET i == trace[k].cpu IN
        /\ \A j \in Ops : trace[j].cpu = i => j <= k
        /\ Ran(i) /\ CoreRet(i) = [res |-> "Err", setting |-> "Cpu"]
        /\ \A j \in 1 .. (k - 1) : trace[j].cpu = i => trace[j].ok
        /\ (\E j \in 1 .. (k - 1) : trace[j].cpu = i /\ IsManualWrite(trace[j]))
              => force_level = "manual"

\* the min line fails after the same apply switched to manual mode and wrote
\* the max line
C5_Witness ==
    \E k \in Ops :
        /\ k > 2
        /\ IsP(trace[k]) /\ trace[k].val[3] = 0 /\ ~trace[k].ok
        /\ IsP(trace[k - 1]) /\ trace[k - 1].val[3] = 1 /\ trace[k - 1].ok
        /\ IsManualWrite(trace[k - 2]) /\ trace[k - 2].ok
        /\ trace[k - 2].cpu = trace[k].cpu
        /\ k = Len(trace)

\* the core whose per-core call returned an error, if any
FailedCores == {i \in Cores : Ran(i) /\ CoreRet(i).res = "Err"}

\* C6: in Cpus::on_set a write failure while applying core i does not prevent
\* the apply of the cores after i.
C6_OnSetContinuesAfterFailure ==
    ret.call = "on_set" =>
        \A i \in FailedCores : \A j \in Cores : j > i =>
            /\ Ran(j)
            /\ \E k \in Ops : trace[k].cpu = j

\* C7: in Cpus::on_resume a failure while resuming core i does not block the
\* resume of the cores after i; the caller receives the first error.
C7_OnResumeContinuesAfterFailure ==
    ret.call = "on_resume" =>
        /\ \A i \in FailedCores : \A j \in Cores : j > i =>
              /\ Ran(j)
              /\ \E k \in Ops : trace[k].cpu = j
        /\ FailedCores # {} => ret.res = "Err"

\* the cores whose online file the most recent call wrote
OnlineWritten == {trace[k].path.index : k \in {j \in Ops : IsOnlineWrite(trace[j])}}

\* C8: after a Cpus::on_set that runs to completion, do_set_online of core i is
\* (smt or i even) and the online file of core i has been written, with the
\* desired flag as 0/1, exactly when i is not 0 and (smt or i even); with smt
\* off and 8 cores, do_set_online holds of cores 0, 2, 4, 6 and the online files
\* of cores 1, 3, 5, 7 are not written; no call ever writes the online file of
\* core 0.
C8_OnlineEligibility ==
    /\ (ret.call = "on_set" /\ ret.res = "Ok" /\ ~smt /\ Cores = 0 .. 7) =>
          /\ {i \in Cores : cpus[i].state.do_set_online} = {0, 2, 4, 6}
          /\ OnlineWritten \cap {1, 3, 5, 7} = {}
    /\ (ret.call = "on_set" /\ ret.res = "Ok") =>
          \A i \in Cores :
              /\ cpus[i].state.do_set_online = (smt \/ i % 2 = 0)
              /\ (\E k \in Ops : IsOnlineWrite(trace[k]) /\ trace[k].path.index = i)
                    <=> (i # 0 /\ (smt \/ i % 2 = 0))
              /\ \A k \in Ops : (IsOnlineWrite(trace[k]) /\ trace[k].path.index = i) =>
                    /\ trace[k].cpu = i
                    /\ trace[k].val = <<IF cpus[i].online THEN 1 ELSE 0>>
    /\ \A k \in Ops : IsOnlineWrite(trace[k]) => trace[k].path.index # 0

\* smt off, core 0 requested offline: a complete on_set that wrote the online
\* files of cores 2, 4 and 6 only
C8_Witness ==
    /\ ret.call = "on_set" /\ ret.res = "Ok"
    /\ ~smt /\ ~cpus[0].online
    /\ OnlineWritten = {2, 4, 6}

\* the clock-control lines core i wrote in the most recent call, in order
ClockLines(i) ==
    LET w == SelectSeq(trace, LAMBDA e : e.cpu = i /\ IsClock(e))
    IN  [k \in DOMAIN w |-> w[k].val]

\* C9: a Cpu::on_resume that succeeds on a core whose clock_limits is present
\* writes the max line, then the min line, then the commit, whatever
\* clock_limits_set is.
C9_ResumeRewritesLimits ==
    ret.call = "on_resume" =>
        \A i \in Cores :
            (Ran(i) /\ CoreRet(i).res = "Ok" /\ cpus[i].clock_limits.some) =>
                ClockLines(i) = << <<"p", i \div 2, 1, cpus[i].clock_limits.max>>,
                                   <<"p", i \div 2, 0, cpus[i].clock_limits.min>>,
                                   <<"c">> >>

\* a successful resume of a core whose limits an earlier on_set has applied
C9_Witness ==
    /\ ret.call = "on_resume" /\ ret.res = "Ok"
    /\ \E i \in Cores :
        /\ cpus[i].clock_limits.some /\ cpus[i].state.clock_limits_set
        /\ Len(ClockLines(i)) = 3

\* C10: every apply returns success or a SettingError, whatever the outcome of
\* each control-file read and write; it never ends in a panic.
C10_NoPanic ==
    Applied => ret.res \in {"Ok", "Err"}

\* C11: every value of a "p" line written by on_set or on_resume lies inside
\* the envelope of its slot: [500, 3500] for slot 1 (max) and [1400, 3500] for
\* slot 0 (min).
C11_PValuesInEnvelope ==
    Applied =>
        \A k \in Ops : IsP(trace[k]) =>
            /\ trace[k].val[3] = 1 => trace[k].val[4] \in 500 .. 3500
            /\ trace[k].val[3] = 0 => trace[k].val[4] \in 1400 .. 3500

IsSmtOp(e) == e.path = CPU_SMT_PATH

\* C13: in Cpus::on_set with smt_capable, the first control-file operation is
\* the write of "on" (smt) or "off" (not smt) to the SMT file, before every
\* per-core write; if it fails, no per-core call is made and the error, tagged
\* Cpu, is returned.  Without smt_capable neither on_set nor on_resume touches
\* the SMT file, and on_resume never does.
C13_SmtFirst ==
    /\ (ret.call = "on_set" /\ smt_capable) =>
          /\ Len(trace) >= 1
          /\ IsWrite(trace[1]) /\ IsSmtOp(trace[1]) /\ trace[1].cpu = NoIndex
          /\ trace[1].val = <<IF smt THEN "on" ELSE "off">>
          /\ \A k \in Ops : k > 1 => (~IsSmtOp(trace[k]) /\ trace[k].cpu # NoIndex)
          /\ ~trace[1].ok =>
                /\ Len(trace) = 1
                /\ ret.cores = <<>>
                /\ ret.res = "Err" /\ ret.setting = "Cpu"
          /\ trace[1].ok => Ran(0)
    /\ (Applied /\ ~smt_capable) => \A k \in Ops : ~IsSmtOp(trace[k])
    /\ ret.call = "on_resume" => \A k \in Ops : ~IsSmtOp(trace[k])

\* an on_set with smt off whose write of "off" failed
C13_Witness ==
    /\ ret.call = "on_set" /\ smt_capable /\ ~smt
    /\ Len(trace) = 1
    /\ trace[1].val = <<"off">> /\ ~trace[1].ok
    /\ ret.res = "Err"

\* the control-file writes of a call, in order: path and value
Writes(io) ==
    LET w == SelectSeq(io, IsWrite)
    IN  [k \in DOMAIN w |-> [path |-> w[k].path, val |-> w[k].val]]

\* C14: without smt_capable, Cpus::on_set performs the same sequence of
\* control-file writes (paths, values, order) whether smt is true or false, on
\* the same cores and the same hardware.
C14_SmtAdvisory ==
    ~smt_capable =>
        Writes(Cpus_on_set(cpus, FALSE, TRUE, force_level, 0).io)
            = Writes(Cpus_on_set(cpus, FALSE, FALSE, force_level, 0).io)

\* C18: during Cpus::on_resume the online file of core i is written only if
\* (smt or i even) holds for the smt of the ensemble at the time of the resume.
C18_ResumeOnlineEligibility ==
    ret.call = "on_resume" =>
        \A k \in Ops : IsOnlineWrite(trace[k]) =>
            (smt \/ trace[k].path.index % 2 = 0)

\* a present-range text "<low>-<high>": digits, one dash, digits
IsRangeText(t) ==
    \E d \in DOMAIN t :
        /\ 1 < d /\ d < Len(t) /\ t[d] = "-"
        /\ \A i \in DOMAIN t : i # d => t[i] \in Digits

\* the text has no dash, or a part after its first dash that is not a number
IsUnparsable(t) ==
    \/ \A i \in DOMAIN t : t[i] # "-"
    \/ \E d \in DOMAIN t :
          /\ t[d] = "-" /\ \A i \in 1 .. (d - 1) : t[i] # "-"
          /\ \/ d = Len(t)
             \/ \E i \in (d + 1) .. Len(t) : t[i] \notin Digits

\* C15: Cpus::cpu_count always returns a count: high + 1 for the present-range
\* text "<low>-<high>" (8 for "0-7"), and the fallback 8 when the file is
\* unreadable and when its text is unparsable.
C15_CountNeverFails ==
    ret.call = "cpu_count" =>
        LET present == trace[1] IN
        /\ ret.val.some
        /\ ~present.ok => ret.val = SomeCount(8)
        /\ (present.ok /\ present.val = <<"0", "-", "7">>) => ret.val = SomeCount(8)
        /\ (present.ok /\ IsRangeText(present.val)) =>
              ret.val = SomeCount(digits_value(
                            SubSeq(present.val, find_dash(present.val) + 1,
                                   Len(present.val)), 0) + 1)
        /\ (present.ok /\ IsUnparsable(present.val)) => ret.val = SomeCount(8)

\* C16: whenever the hardware count N is known, Cpus::from_json of a persisted
\* sequence of k records returns an ensemble of exactly N cores, the core at
\* position p having index p: the first min(k, N) from the records, the cores
\* k .. N - 1 from the hardware probe.
C16_FromJsonLength ==
    (ret.call = "from_json" /\ ret.val.some) =>
        LET N == ret.val.val
            k == Len(ret.arg)
        IN  /\ ret.res = "Ok"
            /\ DOMAIN cpus = 0 .. (N - 1)
            /\ \A p \in DOMAIN cpus :
                  /\ cpus[p].index = p
                  /\ p < k => cpus[p] = Cpu_from_json(ret.arg[p + 1], p)
                  /\ p >= k => cpus[p] = from_sys(p, p \notin hw.offline)

\* C12: a governor write is issued for core i only if i is 0 or the core is
\* desired online, after the commit of the same per-core apply, and never to
\* a core other than 0 whose online file holds 0 when the write is issued
\* (only the online step of the same apply, which precedes it, writes that
\* file).
C12_GovernorOnlyOnline ==
    Applied =>
        \A k \in Ops : IsGovernorWrite(trace[k]) =>
            LET i == trace[k].path.index IN
            /\ trace[k].cpu = i
            /\ i = 0 \/ cpus[i].online
            /\ \E c \in 1 .. (k - 1) : trace[c].cpu = i /\ IsCommit(trace[c]) /\ trace[c].ok
            /\ i # 0 => i \notin hw.offline

\* the default lines of core i and the commit
DefaultLines(i) ==
    << <<"p", i \div 2, 1, 3500>>, <<"p", i \div 2, 0, 1400>>, <<"c">> >>

\* C17: a Cpu::on_set that succeeds on a core without clock limits writes the
\* default lines and clears clock_limits_set when clock_limits_set was true
\* before the apply, and writes no "p" line when it was false; no apply of such
\* a core, failed or not, writes a "p" line when the flag was false; a
\* Cpu::on_set that succeeds on a core with clock limits sets clock_limits_set.
C17_DefaultsWhenSet ==
    [][ret'.call = "on_set" =>
        \A i \in Cores : (i + 1 \in DOMAIN ret'.cores) =>
            /\ (ret'.cores[i + 1].res = "Ok" /\ cpus[i].clock_limits.some) =>
                  cpus'[i].state.clock_limits_set
            /\ (ret'.cores[i + 1].res = "Ok" /\ ~cpus[i].clock_limits.some
                    /\ cpus[i].state.clock_limits_set) =>
                  /\ ClockLines(i)' = DefaultLines(i)
                  /\ ~cpus'[i].state.clock_limits_set
            /\ (~cpus[i].clock_limits.some /\ ~cpus[i].state.clock_limits_set) =>
                  /\ \A k \in DOMAIN trace' : trace'[k].cpu = i => ~IsP(trace'[k])
                  /\ ~cpus'[i].state.clock_limits_set
    ]_vars

\* a successful on_set in which a core without clock limits wrote the default
\* lines: the apply after clock_limits(None) on a core whose limits had been
\* applied
C17_Witness ==
    /\ ret.call = "on_set" /\ ret.res = "Ok"
    /\ setter_calls > 0
    /\ \E i \in Cores :
          /\ ~cpus[i].clock_limits.some
          /\ ~cpus[i].state.clock_limits_set
          /\ ClockLines(i) = DefaultLines(i)

\* C19: whenever Cpu::on_set returns success on a core without clock limits,
\* the "p" lines the core wrote last, if any, are the defaults: max 3500 and
\* min 1400.
C19_ClearedMeansDefaults ==
    ret.call = "on_set" =>
        \A i \in Cores : (Ran(i) /\ CoreRet(i).res = "Ok" /\ ~cpus[i].clock_limits.some) =>
            /\ last_p[i].max \in {NoLines.max, 3500}
            /\ last_p[i].min \in {NoLines.min, 1400}

\* C20: when Cpus::on_set has succeeded, the system has suspended and woken up
\* and Cpus::on_resume succeeds, the bounds in effect of every clock pair are
\* those in effect right after the on_set.
C20_ResumeRestores ==
    [][(ret.call = "suspend" /\ ret'.call = "on_resume" /\ ret'.res = "Ok") =>
          hw'.committed = hw.at_suspend
    ]_vars
====
